---- MODULE Spec2Model ----
(***************************************************************************)
(* file_type_enum: classification of a filesystem entry into the closed    *)
(* FileType enumeration (src/src/lib.rs, unix build), the older per-       *)
(* platform classifier of src/src/unix.rs, and the mode_t adapter of       *)
(* src/src/mode_t_conversion_feature.rs.                                    *)
(*                                                                         *)
(* Two specifications share the variables:                                 *)
(*   Spec      a filesystem that changes under the caller, interleaved     *)
(*             with from_path / from_symlink_path / try_from_path /        *)
(*             try_from_symlink_path calls;                                *)
(*   SpecConv  a caller applying the pure conversions (From<mode_t>, bits, *)
(*             From<fs::FileType>, Display, the is_* predicates) to inputs *)
(*             drawn from bounded sets.                                    *)
(***************************************************************************)
EXTENDS Integers, Sequences, FiniteSets

VARIABLES
    fs,      \* the filesystem: path -> entry
    call,    \* the latest classification call and what it returned
    fresh,   \* TRUE iff fs has not changed since `call` was made
    requery, \* TRUE iff `call` repeated the call before it after fs had changed,
             \* and fs has not changed since
    ft,      \* SpecConv: the FileType value the caller holds, with its origin
    mode,    \* SpecConv: the mode_t value the caller holds, with its origin
    answer   \* SpecConv: the latest Display / predicate query and its output

vars == <<fs, call, fresh, requery, ft, mode, answer>>

(***************************************************************************)
(* libc constants (octal 0170000, 0140000, 0120000, 0100000, 0060000,      *)
(* 0040000, 0020000, 0010000).                                             *)
(***************************************************************************)
S_IFMT   == 61440
S_IFSOCK == 49152
S_IFLNK  == 40960
S_IFREG  == 32768
S_IFBLK  == 24576
S_IFDIR  == 16384
S_IFCHR  == 8192
S_IFIFO  == 4096

\* A type field no std predicate recognises (0160000: a whiteout on BSD).
UnknownFmt == S_IFSOCK + S_IFCHR

\* Longest chain of symbolic links the platform follows before ELOOP.
MaxSymlinks == 3

Paths == {"a", "b", "c"}
NoPath == "-"
NoTag == "-"

\* pub enum FileType, in declaration order.
FileType == <<"Regular", "Directory", "Symlink", "BlockDevice", "CharDevice", "Fifo", "Socket">>
FileTypes == {FileType[i] : i \in 1..Len(FileType)}

\* unix.rs: the same enumeration with File for Regular.
UnixFileType == <<"File", "Directory", "Symlink", "BlockDevice", "CharDevice", "Fifo", "Socket">>

(***************************************************************************)
(* The platform: st_mode words and the two metadata reads.                 *)
(***************************************************************************)
RECURSIVE BitAnd(_, _)
BitAnd(a, b) ==
    IF a = 0 \/ b = 0 THEN 0
    ELSE (a % 2) * (b % 2) + 2 * BitAnd(a \div 2, b \div 2)

\* std::fs::FileType predicates (unix): the type field of st_mode.
fs_is_file(m)         == BitAnd(m, S_IFMT) = S_IFREG
fs_is_dir(m)          == BitAnd(m, S_IFMT) = S_IFDIR
fs_is_symlink(m)      == BitAnd(m, S_IFMT) = S_IFLNK
fs_is_block_device(m) == BitAnd(m, S_IFMT) = S_IFBLK
fs_is_char_device(m)  == BitAnd(m, S_IFMT) = S_IFCHR
fs_is_fifo(m)         == BitAnd(m, S_IFMT) = S_IFIFO
fs_is_socket(m)       == BitAnd(m, S_IFMT) = S_IFSOCK

\* Type fields an entry that is not a link can have.
NodeFmts == {S_IFREG, S_IFDIR, S_IFBLK, S_IFCHR, S_IFIFO, S_IFSOCK, UnknownFmt}

\* Entries: nothing there, an entry whose lookup is refused (EACCES), a node
\* with mode rw-r--r--, or a symbolic link (mode rwxrwxrwx) to a path.
Absent  == [k |-> "absent", mode |-> 0, target |-> NoPath]
Denied  == [k |-> "denied", mode |-> 0, target |-> NoPath]
Node(f) == [k |-> "node", mode |-> f + 420, target |-> NoPath]
Link(q) == [k |-> "link", mode |-> S_IFLNK + 511, target |-> q]
Entries == {Absent, Denied} \cup {Node(f) : f \in NodeFmts} \cup {Link(q) : q \in Paths}

IoError == [ok |-> FALSE, mode |-> 0]
Metadata(m) == [ok |-> TRUE, mode |-> m]

\* stat(2): links are followed, at most n more of them.
RECURSIVE stat(_, _, _)
stat(f, p, n) ==
    IF f[p].k \in {"absent", "denied"} THEN IoError
    ELSE IF f[p].k = "link"
         THEN IF n = 0 THEN IoError ELSE stat(f, f[p].target, n - 1)
         ELSE Metadata(f[p].mode)

\* lstat(2): the entry itself.
lstat(f, p) ==
    IF f[p].k \in {"absent", "denied"} THEN IoError ELSE Metadata(f[p].mode)

\* Mutant of metadata: the read does not follow links.
metadata_nofollow(path) == lstat(fs, path)

\* Mutant of symlink_metadata: the read follows links.
symlink_metadata_follow(path) == stat(fs, path, MaxSymlinks)

\* fs::metadata(path) and fs::symlink_metadata(path) on the current filesystem.
metadata(path) == stat(fs, path, MaxSymlinks)

symlink_metadata(path) == lstat(fs, path)

(***************************************************************************)
(* lib.rs: the classifier.                                                 *)
(***************************************************************************)
Panic == "PANIC"

\* Mutant of From_fs_FileType: the last arm defaults to a tag instead of panicking.
From_fs_FileType_default(m) ==
    IF fs_is_dir(m) THEN "Directory"
    ELSE IF fs_is_symlink(m) THEN "Symlink"
    ELSE IF fs_is_block_device(m) THEN "BlockDevice"
    ELSE IF fs_is_char_device(m) THEN "CharDevice"
    ELSE IF fs_is_fifo(m) THEN "Fifo"
    ELSE IF fs_is_socket(m) THEN "Socket"
    ELSE "Regular"

\* impl From<fs::FileType> for FileType (cfg(unix)).
From_fs_FileType(m) ==
    IF fs_is_file(m) THEN "Regular"
    ELSE IF fs_is_dir(m) THEN "Directory"
    ELSE IF fs_is_symlink(m) THEN "Symlink"
    ELSE IF fs_is_block_device(m) THEN "BlockDevice"
    ELSE IF fs_is_char_device(m) THEN "CharDevice"
    ELSE IF fs_is_fifo(m) THEN "Fifo"
    ELSE IF fs_is_socket(m) THEN "Socket"
    ELSE Panic

\* What a call hands back: Ok(tag), Err(io::Error) or a panic; `reads` counts
\* the metadata reads the call made.
Returned(md, tag) ==
    IF ~md.ok THEN [st |-> "Err", tag |-> NoTag, reads |-> 1]
    ELSE IF tag = Panic THEN [st |-> "Panic", tag |-> NoTag, reads |-> 1]
    ELSE [st |-> "Ok", tag |-> tag, reads |-> 1]

\* Mutant of from_path: the metadata result is unwrapped instead of propagated.
from_path_unwrap(path) ==
    LET md == metadata(path)
    IN  IF ~md.ok THEN [st |-> "Panic", tag |-> NoTag, reads |-> 1]
        ELSE Returned(md, From_fs_FileType(md.mode))

\* Mutant of from_path: the answer of the latest call on the same path is reused.
from_path_cached(path) ==
    IF call.op = "from_path" /\ call.path = path /\ call.st = "Ok"
    THEN [st |-> "Ok", tag |-> call.tag, reads |-> 0]
    ELSE LET md == metadata(path)
         IN  Returned(md, IF md.ok THEN From_fs_FileType(md.mode) ELSE NoTag)

\* FileType::from_path
from_path(path) ==
    LET md == metadata(path)
    IN  Returned(md, IF md.ok THEN From_fs_FileType(md.mode) ELSE NoTag)

\* FileType::from_symlink_path
from_symlink_path(path) ==
    LET md == symlink_metadata(path)
    IN  Returned(md, IF md.ok THEN From_fs_FileType(md.mode) ELSE NoTag)

(***************************************************************************)
(* unix.rs: the older classifier.                                          *)
(***************************************************************************)
\* FileType::try_from_path
try_from_path(path) ==
    LET md == metadata(path)
        m  == md.mode
    IN  Returned(md,
            IF ~md.ok THEN NoTag
            ELSE IF fs_is_file(m) THEN "File"
            ELSE IF fs_is_dir(m) THEN "Directory"
            ELSE IF fs_is_block_device(m) THEN "BlockDevice"
            ELSE IF fs_is_char_device(m) THEN "CharDevice"
            ELSE IF fs_is_fifo(m) THEN "Fifo"
            ELSE IF fs_is_socket(m) THEN "Socket"
            ELSE Panic)

\* FileType::try_from_symlink_path
try_from_symlink_path(path) ==
    LET md == symlink_metadata(path)
        m  == md.mode
    IN  Returned(md,
            IF ~md.ok THEN NoTag
            ELSE IF fs_is_file(m) THEN "File"
            ELSE IF fs_is_dir(m) THEN "Directory"
            ELSE IF fs_is_symlink(m) THEN "Symlink"
            ELSE IF fs_is_block_device(m) THEN "BlockDevice"
            ELSE IF fs_is_char_device(m) THEN "CharDevice"
            ELSE IF fs_is_fifo(m) THEN "Fifo"
            ELSE IF fs_is_socket(m) THEN "Socket"
            ELSE Panic)

(***************************************************************************)
(* Spec: the filesystem and the classification calls.                      *)
(***************************************************************************)
NoCall == [op |-> "-", path |-> NoPath, st |-> "-", tag |-> NoTag, reads |-> 0]
NoFt == [tag |-> NoTag, via |-> "-", origin |-> 0 - 1]
NoMode == [bits |-> 0, origin |-> NoTag]
NoAnswer == [q |-> "-", of |-> NoTag, text |-> "", holds |-> FALSE]

Record(op, path, r) ==
    [op |-> op, path |-> path, st |-> r.st, tag |-> r.tag, reads |-> r.reads]

\* The call being made repeats the latest one, the filesystem having changed since.
Repeats(op, p) == call.op = op /\ call.path = p /\ ~fresh

Init ==
    /\ fs = [p \in Paths |-> Absent]
    /\ call = NoCall
    /\ fresh = TRUE
    /\ requery = FALSE
    /\ ft = NoFt
    /\ mode = NoMode
    /\ answer = NoAnswer

\* The environment creates, removes or replaces an entry.
FsChange(p, e) ==
    /\ e # fs[p]
    /\ fs' = [fs EXCEPT ![p] = e]
    /\ fresh' = FALSE
    /\ requery' = FALSE
    /\ UNCHANGED <<call, ft, mode, answer>>

FromPath(p) ==
    /\ call' = Record("from_path", p, from_path(p))
    /\ fresh' = TRUE
    /\ requery' = Repeats("from_path", p)
    /\ UNCHANGED <<fs, ft, mode, answer>>

FromSymlinkPath(p) ==
    /\ call' = Record("from_symlink_path", p, from_symlink_path(p))
    /\ fresh' = TRUE
    /\ requery' = Repeats("from_symlink_path", p)
    /\ UNCHANGED <<fs, ft, mode, answer>>

TryFromPath(p) ==
    /\ call' = Record("try_from_path", p, try_from_path(p))
    /\ fresh' = TRUE
    /\ requery' = Repeats("try_from_path", p)
    /\ UNCHANGED <<fs, ft, mode, answer>>

TryFromSymlinkPath(p) ==
    /\ call' = Record("try_from_symlink_path", p, try_from_symlink_path(p))
    /\ fresh' = TRUE
    /\ requery' = Repeats("try_from_symlink_path", p)
    /\ UNCHANGED <<fs, ft, mode, answer>>

Next ==
    \/ \E p \in Paths : \E e \in Entries : FsChange(p, e)
    \/ \E p \in Paths : FromPath(p)
    \/ \E p \in Paths : FromSymlinkPath(p)
    \/ \E p \in Paths : TryFromPath(p)
    \/ \E p \in Paths : TryFromSymlinkPath(p)

Spec == Init /\ [][Next]_vars

(***************************************************************************)
(* The mode_t adapter (lib.rs 279-315, mode_t_conversion_feature.rs).      *)
(***************************************************************************)
\* Mutant of From_mode_t: the permission bits are masked off before the match.
From_mode_t_masked(bits) ==
    LET f == BitAnd(bits, S_IFMT)
    IN  CASE f = S_IFREG  -> "Regular"
          [] f = S_IFDIR  -> "Directory"
          [] f = S_IFCHR  -> "Symlink"
          [] f = S_IFBLK  -> "BlockDevice"
          [] f = S_IFIFO  -> "CharDevice"
          [] f = S_IFLNK  -> "Fifo"
          [] f = S_IFSOCK -> "Socket"
          [] OTHER        -> Panic

\* impl From<mode_t> for FileType
From_mode_t(bits) ==
    CASE bits = S_IFREG  -> "Regular"
      [] bits = S_IFDIR  -> "Directory"
      [] bits = S_IFCHR  -> "Symlink"
      [] bits = S_IFBLK  -> "BlockDevice"
      [] bits = S_IFIFO  -> "CharDevice"
      [] bits = S_IFLNK  -> "Fifo"
      [] bits = S_IFSOCK -> "Socket"
      [] OTHER           -> Panic

\* Mutant of bits: the Symlink arm alone is rebound, From<mode_t> left as it is.
bits_one_arm(self) ==
    CASE self = "Regular"     -> S_IFREG
      [] self = "Directory"   -> S_IFDIR
      [] self = "Symlink"     -> S_IFLNK
      [] self = "BlockDevice" -> S_IFBLK
      [] self = "CharDevice"  -> S_IFIFO
      [] self = "Fifo"        -> S_IFLNK
      [] self = "Socket"      -> S_IFSOCK

\* FileType::bits
bits(self) ==
    CASE self = "Regular"     -> S_IFREG
      [] self = "Directory"   -> S_IFDIR
      [] self = "Symlink"     -> S_IFCHR
      [] self = "BlockDevice" -> S_IFBLK
      [] self = "CharDevice"  -> S_IFIFO
      [] self = "Fifo"        -> S_IFLNK
      [] self = "Socket"      -> S_IFSOCK

\* impl From<FileType> for mode_t
Into_mode_t(self) == bits(self)

(***************************************************************************)
(* Display and the per-tag predicates.                                     *)
(***************************************************************************)
\* Mutant of fmt: the Symlink arm prints the word of the doc comment (lib.rs 174).
fmt_symlink(self) ==
    CASE self = "Regular"     -> "regular file"
      [] self = "Directory"   -> "directory"
      [] self = "Symlink"     -> "symlink"
      [] self = "BlockDevice" -> "block device"
      [] self = "CharDevice"  -> "char device"
      [] self = "Fifo"        -> "FIFO"
      [] self = "Socket"      -> "socket"

\* impl fmt::Display for FileType (lib.rs)
fmt(self) ==
    CASE self = "Regular"     -> "regular file"
      [] self = "Directory"   -> "directory"
      [] self = "Symlink"     -> "symbolic link"
      [] self = "BlockDevice" -> "block device"
      [] self = "CharDevice"  -> "char device"
      [] self = "Fifo"        -> "FIFO"
      [] self = "Socket"      -> "socket"

\* impl fmt::Display for FileType (unix.rs)
unix_fmt(self) ==
    CASE self = "File"        -> "regular file"
      [] self = "Directory"   -> "directory"
      [] self = "Symlink"     -> "symbolic link"
      [] self = "BlockDevice" -> "block device"
      [] self = "CharDevice"  -> "char device"
      [] self = "Fifo"        -> "FIFO"
      [] self = "Socket"      -> "socket"

is_regular(self)      == self = "Regular"
is_directory(self)    == self = "Directory"
\* Mutant of is_symlink: the pattern of the method above it.
is_symlink_copied(self) == self = "Directory"

is_symlink(self)      == self = "Symlink"
is_block_device(self) == self = "BlockDevice"
is_char_device(self)  == self = "CharDevice"
is_fifo(self)         == self = "Fifo"
is_socket(self)       == self = "Socket"

PredNames ==
    {"is_regular", "is_directory", "is_symlink", "is_block_device",
     "is_char_device", "is_fifo", "is_socket"}

\* The method `name` called on the value `self`.
CallPredicate(name, self) ==
    CASE name = "is_regular"      -> is_regular(self)
      [] name = "is_directory"    -> is_directory(self)
      [] name = "is_symlink"      -> is_symlink(self)
      [] name = "is_block_device" -> is_block_device(self)
      [] name = "is_char_device"  -> is_char_device(self)
      [] name = "is_fifo"         -> is_fifo(self)
      [] name = "is_socket"       -> is_socket(self)

(***************************************************************************)
(* SpecConv: a caller applying the conversions.                            *)
(***************************************************************************)
\* mode_t inputs: every type field, bare and with permission bits rw-r--r--.
ModeInputs == {f + p : f \in NodeFmts \cup {S_IFLNK, 0}, p \in {0, 420}}

\* fs::FileType inputs: st_mode words as the platform reports them.
Descriptors == {f + 420 : f \in NodeFmts \cup {S_IFLNK}}

Held(tag, via, origin) == [tag |-> tag, via |-> via, origin |-> origin]

InitConv ==
    /\ fs = [p \in Paths |-> Absent]
    /\ call = NoCall
    /\ fresh = TRUE
    /\ requery = FALSE
    /\ ft \in {Held(t, "literal", 0 - 1) : t \in FileTypes}
    /\ mode = NoMode
    /\ answer = NoAnswer

\* FileType::from(m) for a mode_t m.
ConvFromModeT(m) ==
    /\ ft' = Held(From_mode_t(m), "mode_t", m)
    /\ UNCHANGED <<fs, call, fresh, requery, mode, answer>>

\* FileType::from(d) for an fs::FileType d.
ConvFromFsFileType(d) ==
    /\ ft' = Held(From_fs_FileType(d), "fs", d)
    /\ UNCHANGED <<fs, call, fresh, requery, mode, answer>>

\* ft.bits()
ConvBits ==
    /\ ft.tag \in FileTypes
    /\ mode' = [bits |-> bits(ft.tag), origin |-> ft.tag]
    /\ UNCHANGED <<fs, call, fresh, requery, ft, answer>>

\* mode_t::from(ft)
ConvIntoModeT ==
    /\ ft.tag \in FileTypes
    /\ mode' = [bits |-> Into_mode_t(ft.tag), origin |-> ft.tag]
    /\ UNCHANGED <<fs, call, fresh, requery, ft, answer>>

\* format!("{}", ft)
ConvDisplay ==
    /\ ft.tag \in FileTypes
    /\ answer' = [q |-> "display", of |-> ft.tag, text |-> fmt(ft.tag), holds |-> FALSE]
    /\ UNCHANGED <<fs, call, fresh, requery, ft, mode>>

\* The same for the unix.rs enumeration: the variant at the same position.
ConvUnixDisplay ==
    /\ ft.tag \in FileTypes
    /\ LET u == UnixFileType[CHOOSE i \in 1..Len(FileType) : FileType[i] = ft.tag]
       IN  answer' = [q |-> "unix_display", of |-> u, text |-> unix_fmt(u), holds |-> FALSE]
    /\ UNCHANGED <<fs, call, fresh, requery, ft, mode>>

\* ft.is_regular(), ft.is_directory(), ...
ConvPredicate(name) ==
    /\ ft.tag \in FileTypes
    /\ answer' = [q |-> name, of |-> ft.tag, text |-> "", holds |-> CallPredicate(name, ft.tag)]
    /\ UNCHANGED <<fs, call, fresh, requery, ft, mode>>

NextConv ==
    \/ \E m \in ModeInputs : ConvFromModeT(m)
    \/ \E d \in Descriptors : ConvFromFsFileType(d)
    \/ ConvBits
    \/ ConvIntoModeT
    \/ ConvDisplay
    \/ ConvUnixDisplay
    \/ \E name \in PredNames : ConvPredicate(name)

SpecConv == InitConv /\ [][NextConv]_vars

(***************************************************************************)
(* What the specification says, stated without the classifier's code.      *)
(***************************************************************************)
Following  == {"from_path", "try_from_path"}
Preserving == {"from_symlink_path", "try_from_symlink_path"}

\* What a call handed back, without the bookkeeping.
Res(c) == [st |-> c.st, tag |-> c.tag]

\* The paths a lookup of p passes through: p, its target if p is a link, ...
RECURSIVE Closure(_, _)
Closure(f, S) ==
    LET T == S \cup {f[q].target : q \in {x \in S : f[x].k = "link"}}
    IN  IF T = S THEN S ELSE Closure(f, T)

\* Where the chain of links from p ends: at most one path, none in a loop.
Ultimate(f, p) == {q \in Closure(f, {p}) : f[q].k # "link"}

\* The lookup of p, links followed, reaches an entry that exists and is readable.
Resolves(f, p) == \E q \in Ultimate(f, p) : f[q].k = "node"

\* The type of an entry in the specification's words (section 4.1).
TypeOf(e) ==
    IF e.k = "link" THEN "Symlink"
    ELSE CASE e.mode - 420 = S_IFREG  -> "Regular"
           [] e.mode - 420 = S_IFDIR  -> "Directory"
           [] e.mode - 420 = S_IFBLK  -> "BlockDevice"
           [] e.mode - 420 = S_IFCHR  -> "CharDevice"
           [] e.mode - 420 = S_IFIFO  -> "Fifo"
           [] e.mode - 420 = S_IFSOCK -> "Socket"
           [] OTHER                   -> "unknown"

\* The tag as the enumeration of the operation's file names it.
Named(op, t) ==
    IF op \in {"try_from_path", "try_from_symlink_path"} /\ t = "Regular" THEN "File" ELSE t

C2_PreservingReturnsSymlinkForLinks ==
    (fresh /\ call.op \in Preserving) =>
        IF fs[call.path].k = "link"
        THEN call.st = "Ok" /\ call.tag = "Symlink"
        ELSE Res(call) = IF call.op = "from_symlink_path"
                         THEN Res(from_path(call.path))
                         ELSE Res(try_from_path(call.path))

\* from_symlink_path on a link to a directory.
C2_Witness ==
    /\ fresh
    /\ call.op = "from_symlink_path"
    /\ fs[call.path].k = "link"
    /\ fs[fs[call.path].target] = Node(S_IFDIR)
    /\ call.tag = "Symlink"

\* C5: a lookup returns Err exactly when the entry it reads is missing or
\* unreadable: the end of the chain of links for the resolve-following lookup,
\* the path entry itself for the resolve-preserving one (so a dangling link is
\* Err for the first and Ok(Symlink) for the second).
C5_MissingEntryIsAnErrValue ==
    fresh =>
        /\ call.op \in Following => (call.st = "Err" <=> ~Resolves(fs, call.path))
        /\ call.op \in Preserving =>
            /\ call.st = "Err" <=> fs[call.path].k \in {"absent", "denied"}
            /\ (fs[call.path].k = "link" /\ ~Resolves(fs, call.path)) => Res(call) = [st |-> "Ok", tag |-> "Symlink"]

\* from_path on a dangling link.
C5_Witness ==
    /\ fresh
    /\ call.op = "from_path"
    /\ fs[call.path].k = "link"
    /\ fs[fs[call.path].target] = Absent
    /\ call.st = "Err"

\* The predicates of the type descriptor, in the order the claim gives.
PredOrder == <<"is_file", "is_dir", "is_symlink", "is_block_device", "is_char_device", "is_fifo", "is_socket">>

Holds(i, m) ==
    CASE i = 1 -> fs_is_file(m)
      [] i = 2 -> fs_is_dir(m)
      [] i = 3 -> fs_is_symlink(m)
      [] i = 4 -> fs_is_block_device(m)
      [] i = 5 -> fs_is_char_device(m)
      [] i = 6 -> fs_is_fifo(m)
      [] i = 7 -> fs_is_socket(m)

\* The predicates an operation tests: try_from_path has none for links.
Available(op) == IF op = "try_from_path" THEN (1..7) \ {3} ELSE 1..7

\* The descriptor the operation reads.
Descriptor(op, p) == IF op \in Following THEN metadata(p) ELSE symlink_metadata(p)

\* C7: a lookup that reads a descriptor returns the tag of the first predicate,
\* in the order regular, directory, symlink, block device, char device, FIFO,
\* socket, that the descriptor satisfies, and panics (no tag, no Err) when the
\* descriptor satisfies none of the predicates the operation tests.
C7_FirstPredicateOrPanic ==
    (fresh /\ call.op \in Following \cup Preserving /\ Descriptor(call.op, call.path).ok) =>
        LET m == Descriptor(call.op, call.path).mode
            matching == {i \in Available(call.op) : Holds(i, m)}
        IN  IF matching = {}
            THEN Res(call) = [st |-> "Panic", tag |-> NoTag]
            ELSE LET first == CHOOSE i \in matching : \A j \in matching : i <= j
                 IN  Res(call) = [st |-> "Ok", tag |-> Named(call.op, FileType[first])]

\* from_path on an entry whose type no predicate recognises.
C7_Witness ==
    /\ fresh
    /\ call.op = "from_path"
    /\ fs[call.path] = Node(UnknownFmt)
    /\ call.st = "Panic"

\* What the specification expects of a lookup of p on the filesystem f.
Expected(f, op, p) ==
    IF op \in Following
    THEN IF ~Resolves(f, p) THEN [st |-> "Err", tag |-> NoTag]
         ELSE LET t == TypeOf(f[CHOOSE q \in Ultimate(f, p) : TRUE])
              IN  IF t = "unknown" THEN [st |-> "Panic", tag |-> NoTag]
                  ELSE [st |-> "Ok", tag |-> Named(op, t)]
    ELSE IF f[p].k \in {"absent", "denied"} THEN [st |-> "Err", tag |-> NoTag]
         ELSE LET t == TypeOf(f[p])
              IN  IF t = "unknown" THEN [st |-> "Panic", tag |-> NoTag]
                  ELSE [st |-> "Ok", tag |-> Named(op, t)]

\* C10: every lookup makes one metadata read, leaves the filesystem as it is
\* and returns the classification of the entry as it is then: the same as the
\* call before it when nothing changed, the new state's after a change.
\* (fresh' holds after a step exactly when the step is a lookup.)
C10_EveryCallRequeries ==
    /\ [](call.op # "-" =>
            /\ call.reads = 1
            /\ fresh => Res(call) = Expected(fs, call.op, call.path))
    /\ [][fresh' =>
            /\ fs' = fs
            /\ (fresh /\ call'.op = call.op /\ call'.path = call.path) => Res(call') = Res(call)
         ]_vars

\* from_path repeated on a path whose entry was replaced in between.
C10_Witness ==
    /\ requery
    /\ fresh
    /\ call.op = "from_path"
    /\ call.st = "Ok"
    /\ call.tag = "Directory"

\* The POSIX constant of the same meaning as the tag.
PlatformConstant(t) ==
    CASE t = "Regular"     -> S_IFREG
      [] t = "Directory"   -> S_IFDIR
      [] t = "Symlink"     -> S_IFLNK
      [] t = "BlockDevice" -> S_IFBLK
      [] t = "CharDevice"  -> S_IFCHR
      [] t = "Fifo"        -> S_IFIFO
      [] t = "Socket"      -> S_IFSOCK

Recognized == {PlatformConstant(t) : t \in FileTypes}

\* C3: bits() gives each tag the POSIX constant of the same meaning,
\* From<mode_t> gives each constant the tag of the same meaning, and the bits
\* of a tag classified from a descriptor are that descriptor's type field.
C3_EachTagBoundToItsConstant ==
    /\ mode.origin \in FileTypes => mode.bits = PlatformConstant(mode.origin)
    /\ (ft.via = "mode_t" /\ ft.tag \in FileTypes) => ft.origin = PlatformConstant(ft.tag)
    /\ (ft.via = "fs" /\ ft.tag \in FileTypes /\ mode.origin = ft.tag) =>
            mode.bits = BitAnd(ft.origin, S_IFMT)

\* C4: on the seven recognized constants and the seven tags the two
\* conversions are inverses: From(c).bits() = c and From(t.bits()) = t.
C4_ConversionsAreInverses ==
    /\ (ft.via = "mode_t" /\ ft.tag \in FileTypes /\ mode.origin = ft.tag) =>
            mode.bits = ft.origin
    /\ (mode.origin \in FileTypes /\ ft.via = "mode_t" /\ ft.origin = mode.bits) =>
            ft.tag = mode.origin
    /\ (ft.via = "mode_t" /\ ft.origin \in Recognized) => ft.tag \in FileTypes

\* S_IFLNK converted to a tag and the tag converted back.
C4_Witness ==
    /\ ft.via = "mode_t"
    /\ ft.origin = S_IFLNK
    /\ mode.origin = ft.tag
    /\ mode.bits = S_IFLNK

\* C6: From<mode_t> panics, and yields no tag, on every value that is not
\* exactly one of the seven constants (a constant with permission bits and 0
\* included), and yields a tag on the seven; bits() yields a constant for
\* every tag.
C6_UnrecognizedModePanics ==
    /\ ft.via = "mode_t" =>
            IF ft.origin \in Recognized THEN ft.tag \in FileTypes ELSE ft.tag = Panic
    /\ mode.origin \in FileTypes => mode.bits \in Recognized

\* S_IFREG with permission bits rw-r--r-- converted to a tag.
C6_Witness ==
    /\ ft.via = "mode_t"
    /\ ft.origin = S_IFREG + 420
    /\ ft.tag = Panic

\* The renderings the specification lists.
Rendering(t) ==
    CASE t \in {"Regular", "File"} -> "regular file"
      [] t = "Directory"           -> "directory"
      [] t = "Symlink"             -> "symbolic link"
      [] t = "BlockDevice"         -> "block device"
      [] t = "CharDevice"          -> "char device"
      [] t = "Fifo"                -> "FIFO"
      [] t = "Socket"              -> "socket"

OwnPredicate(t) ==
    CASE t = "Regular"     -> "is_regular"
      [] t = "Directory"   -> "is_directory"
      [] t = "Symlink"     -> "is_symlink"
      [] t = "BlockDevice" -> "is_block_device"
      [] t = "CharDevice"  -> "is_char_device"
      [] t = "Fifo"        -> "is_fifo"
      [] t = "Socket"      -> "is_socket"

\* C9: a predicate is true of a value exactly when it is the predicate of the
\* value's tag (so of the classification of a regular file only is_regular is
\* true), and a predicate call changes neither the value nor the filesystem.
C9_ExactlyTheOwnPredicate ==
    /\ [](answer.q \in PredNames => (answer.holds <=> answer.q = OwnPredicate(answer.of)))
    /\ []((answer.q \in PredNames /\ ft.via = "fs" /\ ft.tag = answer.of /\ fs_is_file(ft.origin))
            => (answer.holds <=> answer.q = "is_regular"))
    /\ [][(\E name \in PredNames : ConvPredicate(name)) => (ft' = ft /\ fs' = fs)]_vars

\* is_symlink asked of the classification of a regular file.
C9_Witness ==
    /\ ft.via = "fs"
    /\ ft.origin = S_IFREG + 420
    /\ answer.q = "is_symlink"
    /\ answer.of = ft.tag
    /\ ~answer.holds

====
